---- MODULE Spec2Model ----
(***************************************************************************)
(* A model of go-omniinterface (omniinterface.go): the client adapter for  *)
(* the OMNIbus REST API.  SendRequest is the one public operation; it is   *)
(* modelled whole, with the file system (the payload structure cache) as   *)
(* the persistent state and the remote service's answers as the            *)
(* nondeterministic environment.  Where two processes share the cache      *)
(* directory, SendRequest is modelled system call by system call (procs    *)
(* holds each process's position, lastWriter the process whose write to    *)
(* the cache file came last).                                              *)
(*                                                                         *)
(* Strings that the code parses (DBPath, string column values) are         *)
(* sequences of one-character strings; column names and JSON keys are      *)
(* plain strings.  JSON documents are trees tagged with "t"; Go values     *)
(* held in interface{} are records tagged with their reflect type.         *)
(***************************************************************************)
EXTENDS Integers, Sequences, FiniteSets, TLC

VARIABLES dirExists, files, last, procs, lastWriter

vars == <<dirExists, files, last, procs, lastWriter>>

-----------------------------------------------------------------------------
(* Bounds of the model *)

MaxStrLen == 2

MaxAbsInt == 5

MaxCols == 2

MaxTenths == 39

MaxRows == 2

-----------------------------------------------------------------------------
(* JSON trees, as encoding/json decodes them into interface{} *)

JNull == [t |-> "null"]

JStr(s) == [t |-> "string", v |-> s]

JText(cs) == [t |-> "string", chars |-> cs]

JNum(n) == [t |-> "number", v |-> n]

JFrac(tenths) == [t |-> "number", tenths |-> tenths]

JBool(b) == [t |-> "bool", v |-> b]

JArr(seq) == [t |-> "array", v |-> seq]

JObj(f) == [t |-> "object", v |-> f]

EmptyMap == [k \in {} |-> JNull]

\* A response body or file content that is not JSON text (empty, truncated, HTML ...)
Garbage == [t |-> "garbage"]

\* The value of a map[string]interface{} variable that was never assigned
NilMap == [t |-> "nilmap"]

\* json.Unmarshal(body, &m) into a nil map variable, its error ignored: an object
\* becomes the map, anything else (null, a scalar, a list, no JSON) leaves it nil
Unmarshal(body) ==
    IF body.t = "object" THEN body ELSE NilMap

\* json.Marshal of a map[string]interface{}: a nil map is written as null
Marshal(m) ==
    IF m.t = "nilmap" THEN JNull ELSE m

\* _, ok := m[k]
HasKey(m, k) ==
    m.t = "object" /\ k \in DOMAIN m.v

\* m[k]: nil for a missing key, for a nil map and for a JSON null
Lookup(m, k) ==
    IF HasKey(m, k) THEN m.v[k] ELSE JNull

-----------------------------------------------------------------------------
(* Go values held in interface{} (the values of Request.ColumnData) *)

GoNil == [type |-> "nil"]

GoString(cs) == [type |-> "string", s |-> cs]

GoInt(n) == [type |-> "int", n |-> n]

GoInt64(n) == [type |-> "int64", n |-> n]

GoInt32(n) == [type |-> "int32", n |-> n]

GoFloat64(tenths) == [type |-> "float64", tenths |-> tenths]

GoFloat32(tenths) == [type |-> "float32", tenths |-> tenths]

GoBool(b) == [type |-> "bool", b |-> b]

GoSlice == [type |-> "[]interface {}"]

GoMap == [type |-> "map[string]interface {}"]

\* json.Marshal of one column value
MarshalValue(v) ==
    CASE v.type = "nil" -> JNull
      [] v.type = "string" -> JText(v.s)
      [] v.type \in {"int", "int64", "int32"} -> JNum(v.n)
      [] v.type \in {"float64", "float32"} -> JFrac(v.tenths)
      [] v.type = "bool" -> JBool(v.b)
      [] v.type = "[]interface {}" -> JArr(<<>>)
      [] OTHER -> JObj(EmptyMap)

-----------------------------------------------------------------------------
(* Errors.  Panic is not a returned error: the goroutine aborts. *)

Nil == [kind |-> "nil"]

Panic == [kind |-> "panic"]

ErrCacheDir == [kind |-> "CacheDir"]

ErrPath == [kind |-> "PathFormat"]

ErrTransport == [kind |-> "Transport"]

ErrRemote(msg) == [kind |-> "Remote", message |-> msg]

ErrColumnNotFound(k) == [kind |-> "ColumnNotFound", column |-> k]

ErrAtoi(cs, typ) == [kind |-> "Conversion", value |-> cs, type |-> typ]

ErrType(k, shape) == [kind |-> "TypeMismatch", column |-> k, shape |-> shape]

-----------------------------------------------------------------------------
(* strings.Split(s, "/") *)

Slash == "/"

FirstSlash(cs) ==
    IF \E i \in 1..Len(cs) : cs[i] = Slash
    THEN CHOOSE i \in 1..Len(cs) : cs[i] = Slash /\ \A j \in 1..(i - 1) : cs[j] # Slash
    ELSE 0

RECURSIVE Split(_)
Split(cs) ==
    IF FirstSlash(cs) = 0
    THEN <<cs>>
    ELSE <<SubSeq(cs, 1, FirstSlash(cs) - 1)>> \o Split(SubSeq(cs, FirstSlash(cs) + 1, Len(cs)))

\* The cache file's name under the cache directory: dbinfo[0] + "." + dbinfo[1] + ".json"
CacheFile(dbinfo) ==
    dbinfo[1] \o <<".">> \o dbinfo[2]

-----------------------------------------------------------------------------
(* strconv.Atoi and the conversions of generatePayload *)

Digits == {"0", "1", "2", "3", "4", "5", "6", "7", "8", "9"}

DigitVal(c) ==
    CASE c = "0" -> 0 [] c = "1" -> 1 [] c = "2" -> 2 [] c = "3" -> 3 [] c = "4" -> 4
      [] c = "5" -> 5 [] c = "6" -> 6 [] c = "7" -> 7 [] c = "8" -> 8 [] OTHER -> 9

RECURSIVE DecValue(_)
DecValue(ds) ==
    IF Len(ds) = 0 THEN 0
    ELSE 10 * DecValue(SubSeq(ds, 1, Len(ds) - 1)) + DigitVal(ds[Len(ds)])

\* strconv.Atoi: an optional sign, then one or more decimal digits; anything else
\* is an error
Atoi(cs) ==
    IF Len(cs) > 0 /\ cs[1] \in {"+", "-"}
    THEN [ok |-> Len(cs) > 1 /\ \A i \in 2..Len(cs) : cs[i] \in Digits,
          n |-> IF cs[1] = "-" THEN 0 - DecValue(Tail(cs)) ELSE DecValue(Tail(cs))]
    ELSE [ok |-> Len(cs) > 0 /\ \A i \in 1..Len(cs) : cs[i] \in Digits,
          n |-> DecValue(cs)]

FloatToIntFloor(tenths) ==
    tenths \div 10

\* int(v.(float64)): the fraction is discarded (truncation toward zero)
FloatToInt(tenths) ==
    IF tenths >= 0 THEN tenths \div 10 ELSE 0 - ((0 - tenths) \div 10)

-----------------------------------------------------------------------------
(* The catalog's type codes and the type tags of the payload structure *)

TypeTagNoDefault(dt) ==
    CASE dt = 1 -> "utc"
      [] dt = 3 -> "integer"
      [] OTHER -> "string"

\* The switch on DataType: 1 is a UTC timestamp, 2 and 10 are strings, every
\* other code is an integer
TypeTag(dt) ==
    CASE dt = 1 -> "utc"
      [] dt = 2 -> "string"
      [] dt = 10 -> "string"
      [] OTHER -> "integer"

Put(f, k, v) ==
    [x \in DOMAIN f \cup {k} |-> IF x = k THEN v ELSE f[x]]

\* v.(map[string]interface{})["DataType"].(float64) and ["ColumnName"].(string)
\* succeed only on a row of that shape; otherwise the type assertion panics
IsCatalogRow(v) ==
    /\ v.t = "object"
    /\ {"ColumnName", "DataType"} \subseteq DOMAIN v.v
    /\ v.v["ColumnName"].t = "string"
    /\ v.v["DataType"].t = "number"

-----------------------------------------------------------------------------
(* generateRetval: the unwrapping of a decoded response *)

NoResult == <<>>

generateRetvalRowsetFirst(res) ==
    IF HasKey(res, "rowset") /\ Lookup(res, "rowset").t = "object"
    THEN IF ~HasKey(Lookup(res, "rowset"), "rows")
         THEN [result |-> NoResult, err |-> Nil]
         ELSE IF Lookup(Lookup(res, "rowset"), "rows").t = "array"
              THEN [result |-> Lookup(Lookup(res, "rowset"), "rows").v, err |-> Nil]
              ELSE [result |-> NoResult, err |-> Panic]
    ELSE IF HasKey(res, "exception")
         THEN [result |-> NoResult, err |-> ErrRemote("?")]
         ELSE [result |-> NoResult, err |-> Nil]

generateRetval(res) ==
    IF HasKey(res, "exception")
    THEN \* res["exception"].(map[string]interface{})["message"].(string)
         IF /\ Lookup(res, "exception").t = "object"
            /\ HasKey(Lookup(res, "exception"), "message")
            /\ Lookup(Lookup(res, "exception"), "message").t = "string"
         THEN [result |-> NoResult,
               err |-> ErrRemote(Lookup(Lookup(res, "exception"), "message").v)]
         ELSE [result |-> NoResult, err |-> Panic]
    ELSE IF HasKey(res, "rowset")
         THEN \* res["rowset"].(map[string]interface{})
              IF Lookup(res, "rowset").t # "object"
              THEN [result |-> NoResult, err |-> Panic]
              ELSE IF ~HasKey(Lookup(res, "rowset"), "rows")
                   THEN [result |-> NoResult, err |-> Nil]
                   ELSE \* ["rows"].([]interface{})
                        IF Lookup(Lookup(res, "rowset"), "rows").t = "array"
                        THEN [result |-> Lookup(Lookup(res, "rowset"), "rows").v,
                              err |-> Nil]
                        ELSE [result |-> NoResult, err |-> Panic]
         ELSE [result |-> NoResult, err |-> Nil]

-----------------------------------------------------------------------------
(* The remote service.  client.Do either fails in transport or yields a     *)
(* body; env.catalog and env.table are the answers the service may give to  *)
(* a catalog query and to a table call.                                     *)

TransportFailure == [t |-> "transport"]

\* url.QueryEscape, character by character
EscapeChar(c) ==
    CASE c = " " -> <<"+">>
      [] c = "=" -> <<"%", "3", "D">>
      [] c = ">" -> <<"%", "3", "E">>
      [] c = "'" -> <<"%", "2", "7">>
      [] OTHER -> <<c>>

RECURSIVE QueryEscape(_)
QueryEscape(cs) ==
    IF Len(cs) = 0 THEN <<>> ELSE EscapeChar(Head(cs)) \o QueryEscape(Tail(cs))

NoBody == [t |-> "nobody"]

NoFilter == <<"(none)">>

\* GET {URL}/catalog/columns?collist=ColumnName,DataType&filter=DatabaseName='db' AND TableName='table'
\* (reply: what client.Do answered)
CatalogCall(dbinfo, reply) ==
    [verb |-> "GET", target |-> "catalog", db |-> dbinfo[1], table |-> dbinfo[2],
     body |-> NoBody, reply |-> reply]

NoCollist == <<"(none)">>

TableCall(verb, req, collist, filter, body, reply) ==
    [verb |-> verb, target |-> "table", path |-> req.DBPath, collist |-> collist,
     filter |-> filter, body |-> body, reply |-> reply]

-----------------------------------------------------------------------------
(* createCacheDir and getPayloadStructure *)

\* os.MkdirAll may fail; if the directory is there nothing is attempted
createCacheDir ==
    IF dirExists
    THEN {[err |-> Nil, dir |-> TRUE]}
    ELSE {[err |-> Nil, dir |-> TRUE], [err |-> ErrCacheDir, dir |-> FALSE]}

\* os.Stat(file) reports IsNotExist
NotExist(fs, name) ==
    name \notin DOMAIN fs

\* The loop over the catalog's rows: types[cn] = tag.  A row of another shape
\* panics in its type assertion.
RECURSIVE AddColumns(_, _)
AddColumns(types, rows) ==
    IF Len(rows) = 0 THEN types
    ELSE IF ~IsCatalogRow(Head(rows)) THEN [t |-> "panic"]
    ELSE AddColumns(JObj(Put(types.v, Head(rows).v["ColumnName"].v,
                             JStr(TypeTag(Head(rows).v["DataType"].v)))),
                    Tail(rows))

FetchStructureStoresFirst(dbinfo, reply, dir) ==
    LET call == <<CatalogCall(dbinfo, reply)>>
        types == Unmarshal(reply)
        res == generateRetval(types)
    IN  IF reply = TransportFailure
        THEN [err |-> ErrTransport, dir |-> dir, files |-> files, calls |-> call]
        ELSE [err |-> res.err, dir |-> dir,
              files |-> Put(files, CacheFile(dbinfo), Marshal(types)), calls |-> call]

\* The body of the cache-miss branch once client.Do has answered with reply
FetchStructure(dbinfo, reply, dir) ==
    LET call == <<CatalogCall(dbinfo, reply)>>
        types == Unmarshal(reply)
        res == generateRetval(types)
        filled == AddColumns(types, res.result)
    IN  IF reply = TransportFailure
        THEN [err |-> ErrTransport, dir |-> dir, files |-> files, calls |-> call]
        ELSE IF res.err # Nil
        THEN [err |-> res.err, dir |-> dir, files |-> files, calls |-> call]
        ELSE IF filled.t = "panic"
        THEN [err |-> Panic, dir |-> dir, files |-> files, calls |-> call]
        ELSE [err |-> Nil, dir |-> dir,
              files |-> Put(files, CacheFile(dbinfo), Marshal(filled)),
              calls |-> call]

getPayloadStructureAlwaysFetch(req, env) ==
    UNION {
      IF cd.err # Nil
      THEN {[err |-> cd.err, dir |-> cd.dir, files |-> files, calls |-> <<>>]}
      ELSE IF Len(Split(req.DBPath)) # 2
      THEN {[err |-> ErrPath, dir |-> cd.dir, files |-> files, calls |-> <<>>]}
      ELSE {FetchStructure(Split(req.DBPath), reply, cd.dir) : reply \in env.catalog}
      : cd \in createCacheDir }

getPayloadStructure(req, env) ==
    UNION {
      IF cd.err # Nil
      THEN {[err |-> cd.err, dir |-> cd.dir, files |-> files, calls |-> <<>>]}
      ELSE IF Len(Split(req.DBPath)) # 2
      THEN {[err |-> ErrPath, dir |-> cd.dir, files |-> files, calls |-> <<>>]}
      ELSE IF NotExist(files, CacheFile(Split(req.DBPath)))
      THEN {FetchStructure(Split(req.DBPath), reply, cd.dir) : reply \in env.catalog}
      ELSE {[err |-> Nil, dir |-> cd.dir, files |-> files, calls |-> <<>>]}
      : cd \in createCacheDir }

-----------------------------------------------------------------------------
(* generatePayload *)

IsAnyTag(x) ==
    x.t = "string" /\ "v" \in DOMAIN x

\* types[k] == "integer" || types[k] == "utc": an interface value equal to one of
\* these strings (a value of any other dynamic type compares unequal)
IsNumericTag(x) ==
    x.t = "string" /\ "v" \in DOMAIN x /\ x.v \in {"integer", "utc"}

\* The switch on reflect.TypeOf(v).String() for a column whose tag is integer or
\* utc.  reflect.TypeOf(nil) is a nil Type, and calling String on it panics.
Coerce(k, tag, v) ==
    CASE v.type = "nil" -> [err |-> Panic, val |-> GoNil]
      [] v.type = "string" ->
           IF Atoi(v.s).ok THEN [err |-> Nil, val |-> GoInt(Atoi(v.s).n)]
           ELSE [err |-> ErrAtoi(v.s, tag.v), val |-> GoNil]
      [] v.type = "int64" -> [err |-> Nil, val |-> GoInt64(v.n)]
      [] v.type = "float64" -> [err |-> Nil, val |-> GoInt(FloatToInt(v.tenths))]
      [] v.type = "int" -> [err |-> Nil, val |-> v]
      [] OTHER -> [err |-> ErrType(k, v.type), val |-> GoNil]

\* One pass of "for k, v := range req.ColumnData" over the columns left in order,
\* coldesc and row being what the earlier iterations have stored
RECURSIVE Synthesize(_, _, _, _, _)
Synthesize(types, cols, order, coldesc, row) ==
    IF Len(order) = 0
    THEN [err |-> Nil, payload |-> [coldesc |-> coldesc, rows |-> <<row>>]]
    ELSE LET k == Head(order)
             v == cols[k]
             tag == Lookup(types, k)
             desc == Append(coldesc, [type |-> tag, name |-> k])
         IN  IF tag = JNull
             THEN [err |-> ErrColumnNotFound(k), payload |-> GoNil]
             ELSE IF IsNumericTag(tag)
             THEN IF Coerce(k, tag, v).err # Nil
                  THEN [err |-> Coerce(k, tag, v).err, payload |-> GoNil]
                  ELSE Synthesize(types, cols, Tail(order), desc,
                                  Put(row, k, Coerce(k, tag, v).val))
             ELSE Synthesize(types, cols, Tail(order), desc, Put(row, k, v))

\* The orders in which a range over a Go map may visit its keys
Orders(cols) ==
    {p \in [1..Cardinality(DOMAIN cols) -> DOMAIN cols] :
        \A i, j \in DOMAIN p : i # j => p[i] # p[j]}

\* ioutil.ReadFile of the cache file, its error ignored
ReadFile(fs, name) ==
    IF name \in DOMAIN fs THEN fs[name] ELSE Garbage

EmptyRow == [k \in {} |-> GoNil]

generatePayloadKeepsPayload(req, env) ==
    UNION {
      IF ps.err # Nil
      THEN {[err |-> ps.err, payload |-> GoNil, dir |-> ps.dir, files |-> ps.files,
             calls |-> ps.calls]}
      ELSE LET types == Unmarshal(ReadFile(ps.files, CacheFile(Split(req.DBPath))))
           IN  {[err |-> syn.err,
                 payload |-> IF req.Payload # GoNil /\ syn.err = Nil
                             THEN req.Payload ELSE syn.payload,
                 dir |-> ps.dir, files |-> ps.files, calls |-> ps.calls] :
                 syn \in {Synthesize(types, req.ColumnData, order, <<>>, EmptyRow) :
                            order \in Orders(req.ColumnData)}}
      : ps \in getPayloadStructure(req, env) }

\* req.Payload is made anew (line 76) whatever the caller put there
generatePayload(req, env) ==
    UNION {
      IF ps.err # Nil
      THEN {[err |-> ps.err, payload |-> GoNil, dir |-> ps.dir, files |-> ps.files,
             calls |-> ps.calls]}
      ELSE LET types == Unmarshal(ReadFile(ps.files, CacheFile(Split(req.DBPath))))
           IN  {[err |-> syn.err, payload |-> syn.payload, dir |-> ps.dir,
                 files |-> ps.files, calls |-> ps.calls] :
                 syn \in {Synthesize(types, req.ColumnData, order, <<>>, EmptyRow) :
                            order \in Orders(req.ColumnData)}}
      : ps \in getPayloadStructure(req, env) }

-----------------------------------------------------------------------------
(* sendOMNIbus *)

\* json.Marshal(req.Payload)
MarshalPayload(payload) ==
    IF payload = GoNil THEN JNull
    ELSE JObj([key \in {"rowset"} |->
           JObj([sub \in {"coldesc", "rows"} |->
             IF sub = "coldesc"
             THEN JArr([i \in 1..Len(payload.coldesc) |->
                         JObj([f \in {"type", "name"} |->
                                 IF f = "type" THEN payload.coldesc[i].type
                                 ELSE JStr(payload.coldesc[i].name)])])
             ELSE JArr([i \in 1..Len(payload.rows) |->
                         JObj([c \in DOMAIN payload.rows[i] |->
                                 MarshalValue(payload.rows[i][c])])])])])

\* The answer to one client.Do of a table call: the error, or the unwrapped body
Answer(call) ==
    IF call.reply = TransportFailure
    THEN [result |-> NoResult, err |-> ErrTransport, calls |-> <<call>>]
    ELSE [result |-> generateRetval(Unmarshal(call.reply)).result,
          err |-> generateRetval(Unmarshal(call.reply)).err,
          calls |-> <<call>>]

sendOMNIbusPostWithFilter(req, env) ==
    CASE req.Method \in {"GET", "DELETE"} ->
           {Answer(TableCall(req.Method, req,
                             IF req.Method = "GET" THEN req.Collist ELSE NoCollist,
                             QueryEscape(req.Filter), NoBody, reply)) :
              reply \in env.table}
      [] req.Method \in {"PATCH", "POST"} ->
           {Answer(TableCall(req.Method, req, NoCollist, QueryEscape(req.Filter),
                             MarshalPayload(req.Payload), reply)) : reply \in env.table}
      [] OTHER -> {[result |-> NoResult, err |-> Nil, calls |-> <<>>]}

\* The switch on req.Method: one call per verb, none for any other verb
sendOMNIbus(req, env) ==
    CASE req.Method = "GET" ->
           {Answer(TableCall("GET", req, req.Collist, QueryEscape(req.Filter), NoBody,
                             reply)) : reply \in env.table}
      [] req.Method = "DELETE" ->
           {Answer(TableCall("DELETE", req, NoCollist, QueryEscape(req.Filter), NoBody,
                             reply)) : reply \in env.table}
      [] req.Method = "PATCH" ->
           {Answer(TableCall("PATCH", req, NoCollist, QueryEscape(req.Filter),
                             MarshalPayload(req.Payload), reply)) : reply \in env.table}
      [] req.Method = "POST" ->
           {Answer(TableCall("POST", req, NoCollist, NoFilter,
                             MarshalPayload(req.Payload), reply)) : reply \in env.table}
      [] OTHER -> {[result |-> NoResult, err |-> Nil, calls |-> <<>>]}

-----------------------------------------------------------------------------
(* SendRequest *)

SendRequestIgnoresError(req, env) ==
    IF req.Method \in {"POST", "PATCH"}
    THEN UNION {
           {[result |-> so.result, err |-> so.err, dir |-> gp.dir, files |-> gp.files,
             calls |-> gp.calls \o so.calls] :
              so \in sendOMNIbus([req EXCEPT !.Payload = gp.payload], env)}
           : gp \in generatePayload(req, env) }
    ELSE {[result |-> so.result, err |-> so.err, dir |-> dirExists, files |-> files,
           calls |-> so.calls] : so \in sendOMNIbus(req, env)}

\* Every outcome one call of SendRequest(req) can have in the current state
SendRequest(req, env) ==
    IF req.Method \in {"POST", "PATCH"}
    THEN UNION {
           IF gp.err # Nil
           THEN {[result |-> NoResult, err |-> gp.err, dir |-> gp.dir,
                  files |-> gp.files, calls |-> gp.calls]}
           ELSE {[result |-> so.result, err |-> so.err, dir |-> gp.dir,
                  files |-> gp.files, calls |-> gp.calls \o so.calls] :
                   so \in sendOMNIbus([req EXCEPT !.Payload = gp.payload], env)}
           : gp \in generatePayload(req, env) }
    ELSE {[result |-> so.result, err |-> so.err, dir |-> dirExists, files |-> files,
           calls |-> so.calls] : so \in sendOMNIbus(req, env)}

-----------------------------------------------------------------------------
(* The requests and the service's answers the model draws from *)

Request(method, path, filter, cols, collist, payload) ==
    [Method |-> method, DBPath |-> path, Filter |-> filter, ColumnData |-> cols,
     Collist |-> collist, Payload |-> payload]

\* Every ColumnData with at most max columns over names, valued in values
ColumnMaps(names, values, max) ==
    UNION {[S -> values] : S \in {T \in SUBSET names : Cardinality(T) <= max}}

\* A row of catalog/columns?collist=ColumnName,DataType
CatalogRow(cn, dt) ==
    JObj([f \in {"ColumnName", "DataType"} |->
            IF f = "ColumnName" THEN JStr(cn) ELSE JNum(dt)])

\* The rows of a catalog that declares the columns of DOMAIN decl, in a fixed order
RECURSIVE CatalogRows(_, _)
CatalogRows(decl, order) ==
    IF Len(order) = 0 THEN <<>>
    ELSE IF Head(order) \in DOMAIN decl
    THEN <<CatalogRow(Head(order), decl[Head(order)])>> \o CatalogRows(decl, Tail(order))
    ELSE CatalogRows(decl, Tail(order))

\* {"rowset": {"rows": rows}}
RowsetBody(rows) ==
    JObj([k \in {"rowset"} |-> JObj([r \in {"rows"} |-> JArr(rows)])])

\* {"rowset": {}}
RowsetNoRows == JObj([k \in {"rowset"} |-> JObj(EmptyMap)])

\* {"exception": {"message": msg}}
ExceptionBody(msg) ==
    JObj([k \in {"exception"} |-> JObj([m \in {"message"} |-> JStr(msg)])])

Methods == {"GET", "POST", "PATCH", "DELETE", "PUT"}

WriteMethods == {"POST", "PATCH"}

\* alerts/status
StatusPath == <<"a", "/", "s">>

\* alerts/status, /status (an empty database segment), alerts (no separator)
DBPaths == {StatusPath, <<"/", "s">>, <<"a">>}

SomeFilter == <<"S", " ", "=", " ", "4">>

SomeCollist == <<"Severity", "Summary">>

CatalogNames == <<"Severity", "Summary">>

\* The requests and answers of Spec: every verb and path, columns known to the
\* catalog, unknown to it, and named like the envelope's key
SysColumnNames == {"Severity", "rowset", "Bogus"}

SysValues == {GoString(<<"4">>), GoString(<<"x">>)}

SysCatalog == [c \in {"Severity", "Summary"} |-> IF c = "Severity" THEN 3 ELSE 2]

SysEnv ==
    [catalog |-> {TransportFailure, Garbage, ExceptionBody("bad filter"), RowsetNoRows,
                  RowsetBody(CatalogRows(SysCatalog, CatalogNames))},
     table |-> {TransportFailure, ExceptionBody("bad filter"), RowsetNoRows}]

SysRequests ==
    {Request(m, p, SomeFilter, cols, SomeCollist, GoNil) :
        m \in WriteMethods, p \in DBPaths,
        cols \in ColumnMaps(SysColumnNames, SysValues, MaxCols)}
    \cup {Request(m, p, SomeFilter, [c \in {"Severity"} |-> GoString(<<"4">>)],
                  SomeCollist, GoNil) :
        m \in Methods \ WriteMethods, p \in DBPaths}

\* The requests and answers of SpecSynth: inserts of one column, of every shape of
\* value, into a table whose catalog declares the column with any type code
StrChars == {"0", "1", "-", "+", "x"}

Strings == UNION {[1..n -> StrChars] : n \in 0..MaxStrLen}

SynthValues ==
    {GoString(cs) : cs \in Strings}
    \cup {GoInt(n) : n \in -MaxAbsInt..MaxAbsInt}
    \cup {GoInt64(n) : n \in -MaxAbsInt..MaxAbsInt}
    \cup {GoInt32(n) : n \in -MaxAbsInt..MaxAbsInt}
    \cup {GoFloat64(t) : t \in -MaxTenths..MaxTenths}
    \cup {GoFloat32(t) : t \in {-MaxTenths, 0, MaxTenths}}
    \cup {GoNil, GoBool(TRUE), GoSlice, GoMap}

TypeCodes == {0, 1, 2, 3, 10, 99}

SynthEnv ==
    [catalog |-> {RowsetBody(<<CatalogRow("Severity", dt)>>) : dt \in TypeCodes},
     table |-> {RowsetNoRows}]

SynthRequests ==
    {Request("POST", StatusPath, SomeFilter, [c \in {"Severity"} |-> v], SomeCollist,
             GoNil) : v \in SynthValues}

\* The requests and answers of SpecRetval: one request per verb, answered with
\* every shape of response
RowSeqs ==
    UNION {[1..n -> {CatalogRow("Severity", 3), CatalogRow("Summary", 2)}] :
             n \in 0..MaxRows}

ExceptionFields ==
    {JObj([m \in {"message"} |-> JStr("bad filter")]),
     JObj([m \in {"message"} |-> JStr("denied")]),
     JObj([m \in {"message"} |-> JNum(5)]),
     JObj(EmptyMap), JStr("boom"), JNull}

RowsetFields ==
    {JObj(EmptyMap), JObj([r \in {"affectedRows"} |-> JNum(1)]),
     JObj([r \in {"rows"} |-> JNull]), JObj([r \in {"rows"} |-> JStr("none")]),
     JNull, JNum(1)}
    \cup {JObj([r \in {"rows"} |-> JArr(rows)]) : rows \in RowSeqs}

\* Every object with or without an exception field and with or without a rowset
\* field, besides a field the envelope does not know
ResponseObjects ==
    {JObj([k \in {"exception", "rowset"} |-> IF k = "exception" THEN e ELSE r]) :
        e \in ExceptionFields, r \in RowsetFields}
    \cup {JObj([k \in {"exception"} |-> e]) : e \in ExceptionFields}
    \cup {JObj([k \in {"rowset"} |-> r]) : r \in RowsetFields}
    \cup {JObj(EmptyMap), JObj([k \in {"status"} |-> JStr("ok")])}

RetvalEnv ==
    [catalog |-> {RowsetBody(<<CatalogRow("Severity", 3)>>)},
     table |-> ResponseObjects \cup {Garbage, TransportFailure}]

RetvalRequests ==
    {Request(m, StatusPath, SomeFilter, [c \in {"Severity"} |-> GoString(<<"4">>)],
             SomeCollist, GoNil) : m \in {"GET", "DELETE", "POST", "PATCH"}}

\* The requests and answers of SpecRowSet: writes of up to MaxCols columns to
\* alerts/status, with and without a payload put into the request by the caller
TestText == <<"t", "e", "s", "t">>

CallerPayload ==
    [coldesc |-> <<>>, rows |-> <<[c \in {"Injected"} |-> GoString(<<"x">>)]>>]

RowSetColumnNames == {"Severity", "Summary", "rowset"}

RowSetValues == {GoInt(4), GoString(<<"4">>), GoString(TestText)}

RowSetEnv ==
    [catalog |-> {RowsetBody(CatalogRows(SysCatalog, CatalogNames))},
     table |-> {RowsetNoRows}]

RowSetRequests ==
    {Request(m, StatusPath, SomeFilter, cols, SomeCollist, pl) :
        m \in WriteMethods,
        cols \in ColumnMaps(RowSetColumnNames, RowSetValues, MaxCols),
        pl \in {GoNil, CallerPayload}}

-----------------------------------------------------------------------------
(* The state machine *)

NoRequest == [Method |-> "(none)"]

NoFiles == [name \in {} |-> Garbage]

\* The processes that share the cache directory
Procs == {1, 2}

\* A process that is not inside SendRequest
IdleProc ==
    [pc |-> "idle", req |-> NoRequest, calls |-> <<>>, pending |-> JNull,
     payload |-> GoNil, wrote |-> FALSE]

NoProcs == [p \in Procs |-> IdleProc]

\* The cache files a request of the model can name
CacheFiles(reqs) ==
    {CacheFile(Split(r.DBPath)) : r \in {q \in reqs : Len(Split(q.DBPath)) = 2}}

\* The cache directory may or may not be there, and files left in it by an earlier
\* process need not be readable
InitOver(reqs) ==
    /\ dirExists \in BOOLEAN
    /\ files \in IF dirExists
                 THEN UNION {[S -> {Garbage}] : S \in SUBSET CacheFiles(reqs)}
                 ELSE {NoFiles}
    /\ last = [req |-> NoRequest, calls |-> <<>>, result |-> NoResult, err |-> Nil]
    /\ procs = NoProcs
    /\ lastWriter = 0

\* One SendRequest of a single process, from call to return
Step(reqs, env) ==
    \E req \in reqs :
        \E out \in SendRequest(req, env) :
            /\ dirExists' = out.dir
            /\ files' = out.files
            /\ last' = [req |-> req, calls |-> out.calls, result |-> out.result,
                        err |-> out.err]
            /\ UNCHANGED <<procs, lastWriter>>

Init == InitOver(SysRequests)

Next == Step(SysRequests, SysEnv)

Spec == Init /\ [][Next]_vars

InitSynth == InitOver(SynthRequests)

NextSynth == Step(SynthRequests, SynthEnv)

SpecSynth == InitSynth /\ [][NextSynth]_vars

InitRetval == InitOver(RetvalRequests)

NextRetval == Step(RetvalRequests, RetvalEnv)

SpecRetval == InitRetval /\ [][NextRetval]_vars

InitRowSet == InitOver(RowSetRequests)

NextRowSet == Step(RowSetRequests, RowSetEnv)

SpecRowSet == InitRowSet /\ [][NextRowSet]_vars

-----------------------------------------------------------------------------
(* What the claims speak of, read off the record of the last SendRequest *)

IsWrite(req) == req.Method \in WriteMethods

HasTable(req) == req.Method # "(none)" /\ Len(Split(req.DBPath)) = 2

\* Both segments of the path are non-empty: the path names a database and a table
ProperTable(req) ==
    HasTable(req) /\ Len(Split(req.DBPath)[1]) > 0 /\ Len(Split(req.DBPath)[2]) > 0

\* The cache file a request names
FileOf(req) == CacheFile(Split(req.DBPath))

FetchIdx(calls) == {i \in DOMAIN calls : calls[i].target = "catalog"}

WriteIdx(calls) ==
    {i \in DOMAIN calls : calls[i].target = "table" /\ calls[i].verb \in WriteMethods}

\* The rows a catalog reply carries, if it has the envelope's shape
ReplyRows(reply) ==
    IF /\ HasKey(reply, "rowset")
       /\ HasKey(Lookup(reply, "rowset"), "rows")
       /\ Lookup(Lookup(reply, "rowset"), "rows").t = "array"
    THEN Lookup(Lookup(reply, "rowset"), "rows").v
    ELSE <<>>

\* The ColumnName values among rows
RowNames(rows) ==
    {rows[i].v["ColumnName"].v : i \in {j \in DOMAIN rows : IsCatalogRow(rows[j])}}

\* The column names the catalog returned for the table whose cache file holds doc
\* (the file keeps the catalog's reply beside the tags)
CatalogNamesIn(doc) == RowNames(ReplyRows(doc))

\* The keys of the schema the synthesizer reads from a cache file
SchemaKeys(doc) == IF Unmarshal(doc).t = "object" THEN DOMAIN Unmarshal(doc).v ELSE {}

Tags == {"integer", "utc", "string"}

-----------------------------------------------------------------------------
\* The columns of req that are not among the names the catalog returned
UnknownColumns(req, doc) == DOMAIN req.ColumnData \ CatalogNamesIn(doc)

(* C1: for a table whose schema is cached, a write request with a column    *)
(* the catalog did not return fails with the unknown-column error naming    *)
(* such a column (or with the conversion error of a column visited before   *)
(* it), and no write call is issued; this for every such name, "rowset"     *)
(* included.                                                                *)
C1_UnknownColumnRejected ==
    (/\ IsWrite(last.req) /\ ProperTable(last.req)
     /\ FileOf(last.req) \in DOMAIN files
     /\ UnknownColumns(last.req, files[FileOf(last.req)]) # {})
    => /\ WriteIdx(last.calls) = {}
       /\ \/ /\ last.err.kind = "ColumnNotFound"
             /\ last.err.column \in UnknownColumns(last.req, files[FileOf(last.req)])
          \/ last.err.kind \in {"Conversion", "TypeMismatch"}

-----------------------------------------------------------------------------
\* The last request fetched the schema and stored it
FetchedAndStored ==
    /\ FetchIdx(last.calls) # {}
    /\ ProperTable(last.req) /\ FileOf(last.req) \in DOMAIN files

FetchedRows == ReplyRows(last.calls[1].reply)

(* C2: after a successful schema fetch the schema read back from the cache  *)
(* file is exactly the mapping ColumnName -> tag(DataType) over the rows    *)
(* the catalog returned: no other key, none missing, every value a tag.     *)
C2_SchemaIsCatalogMapping ==
    FetchedAndStored =>
      LET schema == Unmarshal(ReadFile(files, FileOf(last.req)))
      IN  /\ SchemaKeys(files[FileOf(last.req)]) = RowNames(FetchedRows)
          /\ \A i \in DOMAIN FetchedRows :
                Lookup(schema, FetchedRows[i].v["ColumnName"].v)
                   = JStr(TypeTag(FetchedRows[i].v["DataType"].v))
          /\ \A k \in SchemaKeys(files[FileOf(last.req)]) :
                Lookup(schema, k).t = "string" /\ Lookup(schema, k).v \in Tags

-----------------------------------------------------------------------------
(* C3: once a cache file exists, no SendRequest changes or removes it or    *)
(* issues a catalog fetch for its table; a catalog fetch is issued only     *)
(* for a table that has no cache file.                                      *)
C3_CachedNeverRefetched ==
    [][/\ \A f \in DOMAIN files : f \in DOMAIN files' /\ files'[f] = files[f]
       /\ \A i \in FetchIdx(last'.calls) :
            CacheFile(<<last'.calls[i].db, last'.calls[i].table>>) \notin DOMAIN files]_vars

\* A write request answered from an existing, readable cache file: no fetch, one write
C3_Witness ==
    /\ IsWrite(last.req) /\ HasTable(last.req)
    /\ FileOf(last.req) \in DOMAIN files
    /\ files[FileOf(last.req)] # Garbage
    /\ FetchIdx(last.calls) = {}
    /\ WriteIdx(last.calls) # {}

-----------------------------------------------------------------------------
SynthesisErrors ==
    {"CacheDir", "PathFormat", "Transport", "Remote", "ColumnNotFound", "Conversion",
     "TypeMismatch", "panic"}

\* The body is a RowSet synthesized for req: one row holding exactly req's columns
IsSynthesizedFor(body, req) ==
    /\ HasKey(body, "rowset")
    /\ HasKey(Lookup(body, "rowset"), "rows")
    /\ Len(Lookup(Lookup(body, "rowset"), "rows").v) = 1
    /\ DOMAIN Lookup(Lookup(body, "rowset"), "rows").v[1].v = DOMAIN req.ColumnData

(* C4: a write request issues its write call only after the synthesis has   *)
(* succeeded, with the synthesized payload; a synthesis that fails in any   *)
(* step (cache directory, path format, catalog fetch, unknown column, value *)
(* conversion) or aborts issues no write call, and the failure is the       *)
(* error of that step with an empty Result; at most one fetch and one write *)
(* per request, the fetch first, and nothing follows a failed call.         *)
C4_WriteOnlyAfterSynthesis ==
    IsWrite(last.req) =>
      /\ Cardinality(FetchIdx(last.calls)) <= 1
      /\ Cardinality(WriteIdx(last.calls)) <= 1
      /\ Len(last.calls) = Cardinality(FetchIdx(last.calls)) + Cardinality(WriteIdx(last.calls))
      /\ \A f \in FetchIdx(last.calls), w \in WriteIdx(last.calls) : f < w
      /\ \A i \in DOMAIN last.calls :
            last.calls[i].reply = TransportFailure
               => i = Len(last.calls) /\ last.err = ErrTransport
      /\ WriteIdx(last.calls) = {}
            => /\ last.result = NoResult
               /\ last.err.kind \in SynthesisErrors
               /\ ~HasTable(last.req) => last.err.kind \in {"CacheDir", "PathFormat"}
               /\ last.err.kind = "ColumnNotFound" => last.err.column \in DOMAIN last.req.ColumnData
               /\ last.err.kind = "Remote"
                    => last.err.message =
                         Lookup(Lookup(last.calls[1].reply, "exception"), "message").v
      /\ \A w \in WriteIdx(last.calls) :
            /\ IsSynthesizedFor(last.calls[w].body, last.req)
            /\ \A f \in FetchIdx(last.calls) :
                  generateRetval(Unmarshal(last.calls[f].reply)).err = Nil

\* A failed synthesis after a fetch: the schema was fetched, a column was rejected,
\* and no write call followed
C4_Witness ==
    /\ IsWrite(last.req)
    /\ FetchIdx(last.calls) # {} /\ WriteIdx(last.calls) = {}
    /\ last.err.kind \in {"ColumnNotFound", "Conversion"}

-----------------------------------------------------------------------------
\* The cache file of req's table exists and holds no JSON
Unreadable(fs, req) ==
    HasTable(req) /\ FileOf(req) \in DOMAIN fs /\ fs[FileOf(req)] = Garbage

(* C7: a write request to a table whose cache file exists but cannot be     *)
(* parsed treats the entry as absent: it fetches the schema from the        *)
(* catalog again instead of synthesizing against an empty schema.           *)
C7_CorruptFileRefetched ==
    (/\ IsWrite(last.req) /\ ProperTable(last.req) /\ Unreadable(files, last.req)
     /\ DOMAIN last.req.ColumnData # {})
    => FetchIdx(last.calls) # {}

-----------------------------------------------------------------------------
(* The response that decided the outcome of the last request: the reply to  *)
(* its table call, when one was issued and answered                         *)

TableIdx(calls) == {i \in DOMAIN calls : calls[i].target = "table"}

Answered ==
    /\ TableIdx(last.calls) # {}
    /\ last.calls[Len(last.calls)].target = "table"
    /\ last.calls[Len(last.calls)].reply # TransportFailure

LastReply == last.calls[Len(last.calls)].reply

\* The exception field is an object with a string message
GoodException(reply) ==
    /\ HasKey(reply, "exception")
    /\ Lookup(reply, "exception").t = "object"
    /\ HasKey(Lookup(reply, "exception"), "message")
    /\ Lookup(Lookup(reply, "exception"), "message").t = "string"

\* No exception field, and a rowset object without rows
RowsetWithoutRows(reply) ==
    /\ ~HasKey(reply, "exception")
    /\ HasKey(reply, "rowset")
    /\ Lookup(reply, "rowset").t = "object"
    /\ ~HasKey(Lookup(reply, "rowset"), "rows")

\* No exception field, and a rowset object with a list of rows
RowsetWithRows(reply) ==
    /\ ~HasKey(reply, "exception")
    /\ HasKey(reply, "rowset")
    /\ Lookup(reply, "rowset").t = "object"
    /\ HasKey(Lookup(reply, "rowset"), "rows")
    /\ Lookup(Lookup(reply, "rowset"), "rows").t = "array"

-----------------------------------------------------------------------------
(* C5: a response with an exception field, with or without a rowset, fails  *)
(* with the remote error carrying the nested message; else a rowset without *)
(* rows gives an empty Result and no error; else a rowset with rows gives   *)
(* exactly those rows, in their order, and no error.                        *)
C5_UnwrapOrder ==
    Answered =>
      /\ GoodException(LastReply)
           => /\ last.err.kind = "Remote"
              /\ last.err.message = LastReply.v["exception"].v["message"].v
              /\ last.result = NoResult
      /\ RowsetWithoutRows(LastReply)
           => last.err = Nil /\ last.result = NoResult
      /\ RowsetWithRows(LastReply)
           => last.err = Nil /\ last.result = LastReply.v["rowset"].v["rows"].v

\* A response with both fields: the exception wins over two rows in the rowset
C5_Witness ==
    /\ Answered
    /\ GoodException(LastReply)
    /\ HasKey(LastReply, "rowset")
    /\ Len(ReplyRows(LastReply)) = 2
    /\ last.err.kind = "Remote"

\* A response whose rows come back in their order
C5_WitnessRows ==
    /\ Answered
    /\ RowsetWithRows(LastReply)
    /\ Len(last.result) = 2 /\ last.result[1] # last.result[2]

-----------------------------------------------------------------------------
(* C6: a response of any other shape (no JSON, neither field, or a field    *)
(* that is present but not of the envelope's shape) gives an empty Result   *)
(* without error and without aborting.                                      *)
C6_OtherShapesAreEmpty ==
    (/\ Answered
     /\ ~GoodException(LastReply)
     /\ ~RowsetWithoutRows(LastReply)
     /\ ~RowsetWithRows(LastReply))
    => last.err = Nil /\ last.result = NoResult

-----------------------------------------------------------------------------
(* The synthesis of the last write request, column by column *)

\* The last request was a write to a table whose cache file is there
Synthesizing ==
    IsWrite(last.req) /\ ProperTable(last.req) /\ FileOf(last.req) \in DOMAIN files

\* The tag the cache file declares for column k
DeclaredTag(k) == Lookup(Unmarshal(files[FileOf(last.req)]), k)

DeclaredNumeric(k) == DeclaredTag(k) \in {JStr("integer"), JStr("utc")}

\* The type code the catalog gave for column k (the file keeps the catalog's rows)
DeclaredCode(k) ==
    LET rows == ReplyRows(files[FileOf(last.req)])
    IN  rows[CHOOSE i \in DOMAIN rows : rows[i].v["ColumnName"].v = k].v["DataType"].v

Written == WriteIdx(last.calls) # {}

\* The one row of the write call's body
WrittenRow ==
    last.calls[CHOOSE w \in WriteIdx(last.calls) : TRUE].body.v["rowset"].v["rows"].v[1].v

\* The string form of an integer (strconv.Itoa)
DigitChar(d) ==
    CASE d = 0 -> "0" [] d = 1 -> "1" [] d = 2 -> "2" [] d = 3 -> "3" [] d = 4 -> "4"
      [] d = 5 -> "5" [] d = 6 -> "6" [] d = 7 -> "7" [] d = 8 -> "8" [] OTHER -> "9"

RECURSIVE NatToStr(_)
NatToStr(n) ==
    IF n < 10 THEN <<DigitChar(n)>> ELSE NatToStr(n \div 10) \o <<DigitChar(n % 10)>>

Itoa(n) == IF n < 0 THEN <<"-">> \o NatToStr(0 - n) ELSE NatToStr(n)

\* The integers whose string form fits the model's strings
DecRange == (0 - 10 ^ MaxStrLen)..(10 ^ MaxStrLen)

IsIntegerString(cs) == \E n \in DecRange : Itoa(n) = cs

Denoted(cs) == CHOOSE n \in DecRange : Itoa(n) = cs

\* The integer part of tenths/10: the q nearest to it between it and zero
Truncated(tenths) ==
    CHOOSE q \in -MaxTenths..MaxTenths :
        /\ (tenths >= 0 => q >= 0 /\ 10 * q <= tenths /\ tenths < 10 * q + 10)
        /\ (tenths < 0 => q <= 0 /\ 10 * q >= tenths /\ tenths > 10 * q - 10)

\* An optional sign followed by decimal digits
IsSignedDigits(cs) ==
    \/ Len(cs) > 0 /\ \A i \in DOMAIN cs : cs[i] \in Digits
    \/ Len(cs) > 1 /\ cs[1] \in {"+", "-"} /\ \A i \in 2..Len(cs) : cs[i] \in Digits

-----------------------------------------------------------------------------
\* The tag a type code stands for
TagOfCode(dt) ==
    IF dt = 1 THEN "utc" ELSE IF dt \in {2, 10} THEN "string" ELSE "integer"

(* C8: the catalog's type code 1 is stored as the timestamp tag (the code's *)
(* "utc"), 2 and 10 as string, every other code as integer; and the stored  *)
(* tag is what the synthesis goes by: a string column's value is written as *)
(* given, any other column's value is converted to an integer or rejected.  *)
C8_TypeCodeToTag ==
    /\ \A f \in DOMAIN files :
         \A i \in DOMAIN ReplyRows(files[f]) :
            IsCatalogRow(ReplyRows(files[f])[i])
            => Lookup(Unmarshal(files[f]), ReplyRows(files[f])[i].v["ColumnName"].v)
                 = JStr(TagOfCode(ReplyRows(files[f])[i].v["DataType"].v))
    /\ Synthesizing =>
         \A k \in DOMAIN last.req.ColumnData \cap CatalogNamesIn(files[FileOf(last.req)]) :
            /\ DeclaredCode(k) \in {2, 10}
                 => Written /\ WrittenRow[k] = MarshalValue(last.req.ColumnData[k])
            /\ DeclaredCode(k) \notin {2, 10}
                 => /\ Written => WrittenRow[k].t = "number" /\ "v" \in DOMAIN WrittenRow[k]
                    /\ last.req.ColumnData[k] = GoString(<<"x">>)
                         => /\ ~Written
                            /\ last.err = ErrAtoi(<<"x">>, TagOfCode(DeclaredCode(k)))

\* Code 99 was stored as integer and the synthesis refused a non-numeric string for it
C8_Witness ==
    /\ Synthesizing
    /\ "Severity" \in CatalogNamesIn(files[FileOf(last.req)])
    /\ DeclaredCode("Severity") = 99
    /\ DeclaredTag("Severity") = JStr("integer")
    /\ last.err = ErrAtoi(<<"x">>, "integer")

-----------------------------------------------------------------------------
C9_WitnessString ==
    /\ Synthesizing
    /\ DeclaredTag("Severity") = JStr("utc")
    /\ last.req.ColumnData["Severity"] = GoString(<<"-", "1">>)
    /\ Written /\ WrittenRow["Severity"] = JNum(-1)

-----------------------------------------------------------------------------
(* C10: for a column declared integer or timestamp, a value that is no      *)
(* string, integer or float (a boolean, a list, a mapping, nil) fails with  *)
(* the type-mismatch error naming the column and the value's shape, and a   *)
(* string that is no base-10 integer fails with the conversion error naming *)
(* the value and the declared type; an error is returned, the request does  *)
(* not abort, and nothing is written.                                       *)
C10_BadValuesAreErrors ==
    Synthesizing =>
      \A k \in {c \in DOMAIN last.req.ColumnData : DeclaredNumeric(c)} :
         LET v == last.req.ColumnData[k]
         IN  /\ v.type \in {"nil", "bool", "[]interface {}", "map[string]interface {}"}
                  => ~Written /\ last.err = ErrType(k, v.type)
             /\ (v.type = "string" /\ ~IsSignedDigits(v.s))
                  => ~Written /\ last.err = ErrAtoi(v.s, DeclaredTag(k).v)

-----------------------------------------------------------------------------
(* C11: a write request whose path does not split on "/" into exactly two   *)
(* non-empty segments fails with the path-format error (or, before the path *)
(* is looked at, with the cache-directory error); no catalog fetch and no   *)
(* write call is issued and no cache file is written.                       *)
C11_BadPathRejected ==
    [][(IsWrite(last'.req) /\ ~ProperTable(last'.req))
        => /\ last'.err \in {ErrPath, ErrCacheDir}
           /\ last'.result = NoResult
           /\ last'.calls = <<>>
           /\ files' = files]_vars

-----------------------------------------------------------------------------
\* The catalog fetch failed in transport, or its answer is the error envelope
FetchFailure(reply) == reply = TransportFailure \/ GoodException(reply)

\* The request recorded in l was a write whose catalog fetch failed
FetchFailedIn(l) ==
    /\ IsWrite(l.req)
    /\ FetchIdx(l.calls) # {}
    /\ FetchFailure(l.calls[1].reply)

(* C12: a write request whose catalog fetch fails in transport or is        *)
(* answered with the error envelope fails with that error and an empty      *)
(* Result, issues no further call and leaves every cache file as it was,    *)
(* the table's file absent; and the write request to the same table that    *)
(* follows issues the catalog fetch again.                                  *)
C12_FailedFetchStoresNothing ==
    [][/\ FetchFailedIn(last')
            => /\ last'.calls[1].reply = TransportFailure => last'.err = ErrTransport
               /\ GoodException(last'.calls[1].reply)
                    => last'.err = ErrRemote(Lookup(Lookup(last'.calls[1].reply,
                                                          "exception"), "message").v)
               /\ last'.result = NoResult
               /\ Len(last'.calls) = 1
               /\ files' = files
               /\ FileOf(last'.req) \notin DOMAIN files'
       /\ (FetchFailedIn(last) /\ IsWrite(last'.req) /\ last'.req.DBPath = last.req.DBPath)
            => FetchIdx(last'.calls) # {}]_vars

\* The catalog answered a write to alerts/status with the error envelope
C12_Witness ==
    /\ FetchFailedIn(last) /\ ProperTable(last.req)
    /\ GoodException(last.calls[1].reply)
    /\ last.err = ErrRemote("bad filter")
    /\ FileOf(last.req) \notin DOMAIN files

-----------------------------------------------------------------------------
\* The body of the write call of the last request
WrittenBody == last.calls[CHOOSE w \in WriteIdx(last.calls) : TRUE].body

WrittenColdesc == WrittenBody.v["rowset"].v["coldesc"].v

WrittenRows == WrittenBody.v["rowset"].v["rows"].v

\* columns = {Severity: 4, Summary: "test"}
ScenarioColumns ==
    [c \in {"Severity", "Summary"} |->
        IF c = "Severity" THEN GoInt(4) ELSE GoString(TestText)]

(* C13: the body of every write call is a RowSet with one column descriptor *)
(* {name: c, type: schema[c]} per column of the request, no name repeated,  *)
(* and exactly one row whose keys are the request's column names; for       *)
(* {Severity: 4, Summary: "test"} against {Severity: integer, Summary:      *)
(* string} the two descriptors and the row {Severity: 4, Summary: "test"};  *)
(* nothing of a payload the caller put into the request is in the body.     *)
C13_RowSetShape ==
    (IsWrite(last.req) /\ Written) =>
      /\ DOMAIN WrittenBody.v = {"rowset"}
      /\ DOMAIN WrittenBody.v["rowset"].v = {"coldesc", "rows"}
      /\ Len(WrittenColdesc) = Cardinality(DOMAIN last.req.ColumnData)
      /\ {WrittenColdesc[i].v["name"].v : i \in DOMAIN WrittenColdesc}
            = DOMAIN last.req.ColumnData
      /\ \A i \in DOMAIN WrittenColdesc :
            /\ DOMAIN WrittenColdesc[i].v = {"name", "type"}
            /\ WrittenColdesc[i].v["type"] = DeclaredTag(WrittenColdesc[i].v["name"].v)
      /\ Len(WrittenRows) = 1
      /\ DOMAIN WrittenRows[1].v = DOMAIN last.req.ColumnData
      /\ last.req.ColumnData = ScenarioColumns
            => /\ WrittenRows[1].v["Severity"] = JNum(4)
               /\ WrittenRows[1].v["Summary"] = JText(TestText)
               /\ \A i \in DOMAIN WrittenColdesc :
                     WrittenColdesc[i].v["type"]
                       = JStr(IF WrittenColdesc[i].v["name"].v = "Severity"
                              THEN "integer" ELSE "string")

\* The scenario, written from a request that came with a payload of the caller's
C13_Witness ==
    /\ IsWrite(last.req) /\ Written
    /\ last.req.Payload = CallerPayload
    /\ last.req.ColumnData = ScenarioColumns
    /\ Len(WrittenColdesc) = 2
    /\ WrittenRows[1].v["Severity"] = JNum(4)

-----------------------------------------------------------------------------
(* C14: for a column declared string the request is written and the row     *)
(* holds the value the caller gave, unchanged, whatever its shape: a string *)
(* (the empty one included), an integer or a float of any width, a boolean, *)
(* a list, a mapping or nil; nothing is converted and nothing is rejected.  *)
C14_StringColumnPassesThrough ==
    Synthesizing =>
      \A k \in {c \in DOMAIN last.req.ColumnData : DeclaredTag(c) = JStr("string")} :
         /\ Written
         /\ last.err = Nil
         /\ WrittenRow[k] = MarshalValue(last.req.ColumnData[k])
         /\ \E i \in DOMAIN WrittenColdesc :
               /\ WrittenColdesc[i].v["name"] = JStr(k)
               /\ WrittenColdesc[i].v["type"] = JStr("string")

\* -3.9 in a string column was written as -3.9
C14_Witness ==
    /\ Synthesizing
    /\ DeclaredTag("Severity") = JStr("string")
    /\ last.req.ColumnData["Severity"] = GoFloat64(0 - MaxTenths)
    /\ Written /\ WrittenRow["Severity"] = JFrac(0 - MaxTenths)

-----------------------------------------------------------------------------
(* C15: the verb alone decides the call.  GET and DELETE issue exactly one  *)
(* call, to the table, with the escaped filter and no body, and leave the   *)
(* cache directory and its files as they are; POST issues its call with the *)
(* synthesized RowSet as body and no filter, PATCH with the synthesized     *)
(* RowSet and the escaped filter, each exactly when the synthesis returned  *)
(* no error; any other verb issues no call, leaves the cache as it is and   *)
(* returns an empty Result and no error.                                    *)
C15_VerbDecidesCall ==
    [][/\ last'.req.Method \in {"GET", "DELETE"}
            => /\ Len(last'.calls) = 1
               /\ last'.calls[1].target = "table"
               /\ last'.calls[1].verb = last'.req.Method
               /\ last'.calls[1].path = last'.req.DBPath
               /\ last'.calls[1].body = NoBody
               /\ last'.calls[1].filter = QueryEscape(last'.req.Filter)
               /\ last'.calls[1].collist
                    = IF last'.req.Method = "GET" THEN last'.req.Collist ELSE NoCollist
               /\ files' = files /\ dirExists' = dirExists
       /\ last'.req.Method \in {"POST", "PATCH"}
            => /\ Cardinality(TableIdx(last'.calls)) <= 1
               /\ TableIdx(last'.calls) = {} => last'.err # Nil
               /\ \A w \in TableIdx(last'.calls) :
                     /\ last'.calls[w].verb = last'.req.Method
                     /\ last'.calls[w].path = last'.req.DBPath
                     /\ IsSynthesizedFor(last'.calls[w].body, last'.req)
                     /\ last'.calls[w].filter
                          = IF last'.req.Method = "POST" THEN NoFilter
                            ELSE QueryEscape(last'.req.Filter)
       /\ last'.req.Method \notin {"GET", "DELETE", "POST", "PATCH"}
            => /\ last'.calls = <<>>
               /\ last'.result = NoResult /\ last'.err = Nil
               /\ files' = files /\ dirExists' = dirExists]_vars

\* An update of alerts/status went out with its row and the filter S+%3D+4
C15_Witness ==
    /\ last.req.Method = "PATCH" /\ ProperTable(last.req)
    /\ DOMAIN last.req.ColumnData = {"Severity"}
    /\ Written
    /\ last.calls[Len(last.calls)].filter = <<"S", "+", "%", "3", "D", "+", "4">>
    /\ last.calls[Len(last.calls)].body # NoBody

\* A request with the verb PUT came back empty without a call
C15_WitnessOtherVerb ==
    /\ last.req.Method = "PUT"
    /\ last.calls = <<>> /\ last.err = Nil /\ last.result = NoResult

-----------------------------------------------------------------------------
(* Two processes sharing the cache directory.  Nothing in the code locks    *)
(* the cache file, so the system calls of one SendRequest interleave with   *)
(* those of the other: os.Stat, client.Do, the open and the write of        *)
(* ioutil.WriteFile, ioutil.ReadFile.                                       *)

\* The file right after ioutil.WriteFile has opened it (O_CREATE|O_TRUNC)
EmptyFile == [t |-> "empty"]

\* n bytes that are no JSON text: a shorter document written over a longer one
TornFile(n) == [t |-> "torn", len |-> n]

\* The bytes of the keys in S, each in its quotes
RECURSIVE KeysLen(_)
KeysLen(S) ==
    IF S = {} THEN 0
    ELSE LET k == CHOOSE y \in S : TRUE
         IN  Len(k) + 2 + KeysLen(S \ {k})

RECURSIVE ByteLen(_)

\* The bytes of the members f[x], x in S, of a list or an object
RECURSIVE MembersLen(_, _)
MembersLen(f, S) ==
    IF S = {} THEN 0
    ELSE LET x == CHOOSE y \in S : TRUE
         IN  ByteLen(f[x]) + MembersLen(f, S \ {x})

\* The number of bytes json.Marshal writes for a document: brackets, members,
\* keys with their colons, and the commas between members
ByteLen(doc) ==
    CASE doc.t = "null" -> 4
      [] doc.t = "string" /\ "v" \in DOMAIN doc -> Len(doc.v) + 2
      [] doc.t = "string" -> Len(doc.chars) + 2
      [] doc.t = "number" /\ "v" \in DOMAIN doc -> Len(Itoa(doc.v))
      [] doc.t = "array" ->
           2 + MembersLen(doc.v, DOMAIN doc.v)
             + (IF Len(doc.v) > 0 THEN Len(doc.v) - 1 ELSE 0)
      [] doc.t = "object" ->
           2 + MembersLen(doc.v, DOMAIN doc.v)
             + KeysLen(DOMAIN doc.v) + Cardinality(DOMAIN doc.v)
             + (IF DOMAIN doc.v # {} THEN Cardinality(DOMAIN doc.v) - 1 ELSE 0)
      [] doc.t = "torn" -> doc.len
      [] OTHER -> 0

\* f.Write(data) at offset 0 of a file that holds old: the bytes of old beyond
\* the end of data stay where they are
Overlay(data, old) ==
    IF ByteLen(data) >= ByteLen(old) THEN data ELSE TornFile(ByteLen(old))

\* Inserts of one row into alerts/status; the catalog may have gained a column
\* between two fetches
RaceRequests ==
    {Request("POST", StatusPath, SomeFilter, [c \in {"Severity"} |-> GoString(<<"4">>)],
             SomeCollist, GoNil)}

RaceEnv ==
    [catalog |-> {RowsetBody(<<CatalogRow("Severity", 3)>>),
                  RowsetBody(CatalogRows(SysCatalog, CatalogNames)),
                  TransportFailure},
     table |-> {RowsetNoRows}]

\* SendRequest returns to the caller of process p
Return(p, result, err, calls) ==
    /\ last' = [req |-> procs[p].req, calls |-> calls, result |-> result, err |-> err]
    /\ procs' = [procs EXCEPT ![p].pc = "idle"]

\* SendRequest is called: createCacheDir and the test of the path
Begin(p) ==
    /\ procs[p].pc = "idle"
    /\ \E req \in RaceRequests, cd \in createCacheDir :
         /\ dirExists' = cd.dir
         /\ IF cd.err # Nil \/ Len(Split(req.DBPath)) # 2
            THEN /\ last' = [req |-> req, calls |-> <<>>, result |-> NoResult,
                             err |-> IF cd.err # Nil THEN cd.err ELSE ErrPath]
                 /\ UNCHANGED procs
            ELSE /\ procs' = [procs EXCEPT ![p].pc = "stat", ![p].req = req,
                                           ![p].calls = <<>>, ![p].payload = GoNil]
                 /\ UNCHANGED last
    /\ UNCHANGED <<files, lastWriter>>

\* os.Stat of the cache file
Stat(p) ==
    /\ procs[p].pc = "stat"
    /\ procs' = [procs EXCEPT ![p].pc =
                    IF NotExist(files, FileOf(procs[p].req)) THEN "fetch" ELSE "read"]
    /\ UNCHANGED <<dirExists, files, last, lastWriter>>

\* The catalog call and the building of the schema
Fetch(p) ==
    /\ procs[p].pc = "fetch"
    /\ \E reply \in RaceEnv.catalog :
         LET out == FetchStructure(Split(procs[p].req.DBPath), reply, dirExists)
         IN  IF out.err # Nil
             THEN Return(p, NoResult, out.err, out.calls)
             ELSE /\ procs' = [procs EXCEPT ![p].pc = "open", ![p].calls = out.calls,
                                            ![p].pending = out.files[FileOf(procs[p].req)]]
                  /\ UNCHANGED last
    /\ UNCHANGED <<dirExists, files, lastWriter>>

\* ioutil.WriteFile opens the cache file, which truncates it
Open(p) ==
    /\ procs[p].pc = "open"
    /\ files' = Put(files, FileOf(procs[p].req), EmptyFile)
    /\ procs' = [procs EXCEPT ![p].pc = "write"]
    /\ UNCHANGED <<dirExists, last, lastWriter>>

\* ioutil.WriteFile writes the schema and closes the file
Write(p) ==
    /\ procs[p].pc = "write"
    /\ files' = Put(files, FileOf(procs[p].req),
                    Overlay(procs[p].pending, files[FileOf(procs[p].req)]))
    /\ lastWriter' = p
    /\ procs' = [procs EXCEPT ![p].pc = "read", ![p].wrote = TRUE]
    /\ UNCHANGED <<dirExists, last>>

\* generatePayload reads the cache file and synthesizes the payload
Read(p) ==
    /\ procs[p].pc = "read"
    /\ \E order \in Orders(procs[p].req.ColumnData) :
         LET types == Unmarshal(ReadFile(files, FileOf(procs[p].req)))
             syn == Synthesize(types, procs[p].req.ColumnData, order, <<>>, EmptyRow)
         IN  IF syn.err # Nil
             THEN Return(p, NoResult, syn.err, procs[p].calls)
             ELSE /\ procs' = [procs EXCEPT ![p].pc = "send", ![p].payload = syn.payload]
                  /\ UNCHANGED last
    /\ UNCHANGED <<dirExists, files, lastWriter>>

\* sendOMNIbus issues the write call
Send(p) ==
    /\ procs[p].pc = "send"
    /\ \E so \in sendOMNIbus([procs[p].req EXCEPT !.Payload = procs[p].payload], RaceEnv) :
         Return(p, so.result, so.err, procs[p].calls \o so.calls)
    /\ UNCHANGED <<dirExists, files, lastWriter>>

\* The table is not cached when the processes start
InitRace ==
    /\ dirExists \in BOOLEAN
    /\ files = NoFiles
    /\ last = [req |-> NoRequest, calls |-> <<>>, result |-> NoResult, err |-> Nil]
    /\ procs = NoProcs
    /\ lastWriter = 0

NextRace ==
    \E p \in Procs :
        \/ Begin(p)
        \/ Stat(p)
        \/ Fetch(p)
        \/ Open(p)
        \/ Write(p)
        \/ Read(p)
        \/ Send(p)

SpecRace == InitRace /\ [][NextRace]_vars

-----------------------------------------------------------------------------
\* The cache file of alerts/status
RaceFile == CacheFile(Split(StatusPath))

\* No process is inside SendRequest
AllReturned == \A p \in Procs : procs[p].pc = "idle"

(* C16: two processes writing to the same uncached table are not locked     *)
(* against each other; once both have returned, the cache file holds the    *)
(* complete schema written by the process that wrote last, the file is      *)
(* never removed, and a request enters the catalog fetch only while the     *)
(* file is absent, so that no later request fetches the schema again.       *)
C16_LastWriteWins ==
    [][/\ (AllReturned' /\ lastWriter' # 0)
            => /\ RaceFile \in DOMAIN files'
               /\ files'[RaceFile] = procs'[lastWriter'].pending
       /\ RaceFile \in DOMAIN files => RaceFile \in DOMAIN files'
       /\ \A p \in Procs :
            (procs[p].pc # "fetch" /\ procs'[p].pc = "fetch")
               => RaceFile \notin DOMAIN files]_vars

\* Both processes found the file absent and both have fetched the schema
C16_BothFetch ==
    \A p \in Procs : procs[p].pc = "open"

\* A process read the file the other had opened and not yet written: its request
\* failed with the unknown-column error
C16_PartialRead ==
    /\ \E p \in Procs : procs[p].pc = "write"
    /\ files[RaceFile] = EmptyFile
    /\ last.err = ErrColumnNotFound("Severity")
    /\ FetchIdx(last.calls) # {}

\* Both have written different schemas and returned; the last one's stands
C16_LastWriterStands ==
    /\ AllReturned /\ lastWriter # 0
    /\ \A p \in Procs : procs[p].wrote
    /\ procs[1].pending # procs[2].pending
    /\ files[RaceFile] = procs[lastWriter].pending

-----------------------------------------------------------------------------
\* The file was written by a fetch to which the catalog returned no column
ZeroColumns(doc) == doc # Garbage /\ CatalogNamesIn(doc) = {}

\* The request recorded in l fetched the schema and the catalog's answer, neither
\* a failure nor the error envelope, held no column
FetchedNothingIn(l) ==
    /\ IsWrite(l.req) /\ ProperTable(l.req)
    /\ FetchIdx(l.calls) # {}
    /\ ~FetchFailure(l.calls[1].reply)
    /\ ReplyRows(l.calls[1].reply) = <<>>

(* C17: a catalog fetch answered without failure and without the error     *)
(* envelope writes the cache file even when the answer holds no column (an  *)
(* empty rowset, no rowset, no JSON); from then on a write request to that  *)
(* table issues no catalog fetch, leaves the file as it is and, if it has   *)
(* columns, fails with the unknown-column error for one of them without a   *)
(* write call.                                                              *)
C17_EmptySchemaSticks ==
    [][/\ FetchedNothingIn(last')
            => /\ FileOf(last'.req) \in DOMAIN files'
               /\ ZeroColumns(files'[FileOf(last'.req)])
       /\ (/\ IsWrite(last'.req) /\ ProperTable(last'.req)
           /\ FileOf(last'.req) \in DOMAIN files
           /\ ZeroColumns(files[FileOf(last'.req)]))
            => /\ FetchIdx(last'.calls) = {}
               /\ files' = files
               /\ DOMAIN last'.req.ColumnData # {}
                    => /\ last'.calls = <<>>
                       /\ last'.err.kind = "ColumnNotFound"
                       /\ last'.err.column \in DOMAIN last'.req.ColumnData]_vars

====
